---- MODULE Spec2Model ----
(***************************************************************************)
(* The reactive state store of the mmpm web front-end (SharedStoreService) *)
(* and the start-up hook that runs it (init_shared_store, AppModule).      *)
(*                                                                         *)
(* The store owns three BehaviorSubjects.  load() asks the package API for *)
(* the packages; the handler of that response publishes it when its code   *)
(* is 200 and then asks for db/info and db/upgradable, whose handlers      *)
(* publish in the same way.  The API is an external collaborator: each     *)
(* request it is given may be answered with code 200 and a payload, with   *)
(* another code and a message, may reject (transport failure), or may      *)
(* never be answered.                                                      *)
(***************************************************************************)
EXTENDS Integers, Sequences, FiniteSets, TLC

(* ------------------------------ bounds --------------------------------- *)
\* number of load() invocations in a run (the first is the start-up hook's)
MaxLoads == 2
\* distinct non-default payloads the API can answer with, per endpoint
MaxPayload == 1
\* number of observers that may subscribe to the store's channels
MaxSubs == 1

Loads == 1..MaxLoads
SubIds == 1..MaxSubs
Channels == {"packages", "dbInfo", "upgradable"}

(* ------------------------------ values --------------------------------- *)
\* new BehaviorSubject<Array<MagicMirrorPackage>>([]): an array is the record
\* of its items
DefaultPackages == [items |-> << >>]
\* new BehaviorSubject<DatabaseInfo>({}): the record with no field
DefaultDbInfo == [f \in {} |-> 0]
\* new BehaviorSubject<UpgradableDetails>({mmpm: false, MagicMirror: false, packages: []})
DefaultUpgradable == [mmpm |-> FALSE, MagicMirror |-> FALSE, packages |-> << >>]

Default(c) ==
  CASE c = "packages" -> DefaultPackages
    [] c = "dbInfo" -> DefaultDbInfo
    [] c = "upgradable" -> DefaultUpgradable

\* the code a handler tests for: response.code === 200
OK == 200
\* the codes of a failed request
NonOkCodes == {500}

\* The payloads the API can deliver on an endpoint.  Payload 0 is a payload
\* equal to the channel's default (no package, no database detail, nothing
\* to upgrade): a code-200 response may well carry it.
Payload(c, i) ==
  IF i = 0 THEN Default(c)
  ELSE CASE c = "packages" -> [items |-> << i >>]
         [] c = "dbInfo" -> [last_update |-> i]
         [] c = "upgradable" -> [mmpm |-> TRUE, MagicMirror |-> FALSE, packages |-> << i >>]

Payloads(c) == { Payload(c, i) : i \in 0..MaxPayload }

\* no value at all (undefined)
NoValue == [text |-> "undefined"]

\* response.message of a failed request: a text, kept in a one-field record
FailureMessage == [text |-> "server error"]

\* APIResponse: what a fulfilled request hands to its handler
Responses(c) ==
  [code : {OK}, message : Payloads(c)] \cup [code : NonOkCodes, message : {FailureMessage}]

(* ------------------------------ state ---------------------------------- *)
VARIABLES
  packagesSubj,      \* BehaviorSubject of the packages channel
  dbInfoSubj,        \* BehaviorSubject of the dbInfo channel
  upgradeableSubj,   \* BehaviorSubject of the upgradable channel
  observer,          \* observer[s]: how many values observer s was handed, and the last
  nLoads,            \* number of load() invocations so far
  fetch,             \* fetch[l][c]: the request of invocation l on endpoint c
  issued,            \* issued[l]: the endpoints invocation l has asked, in the order of the calls
  unhandled,         \* rejections no handler took: <<l, c>>
  boot,              \* the application's bootstrap: "start", "initializing", "done"
  initResult,        \* what the APP_INITIALIZER hook returned
  track,             \* whether the history below is recorded in this run
  run,               \* run[l]: what invocation l, while it runs, has seen (see NoRun)
  lastOk,            \* lastOk[c]: the invocation whose code-200 response on c was handled last
  lastOkMsg          \* lastOkMsg[c]: the message of that response

subjects == <<packagesSubj, dbInfoSubj, upgradeableSubj>>
history == <<track, run, lastOk, lastOkMsg>>
vars == <<packagesSubj, dbInfoSubj, upgradeableSubj, observer, nLoads, fetch, issued,
          unhandled, boot, initResult, track, run, lastOk, lastOkMsg>>

\* the subject behind a channel
Subj(c) ==
  CASE c = "packages" -> packagesSubj
    [] c = "dbInfo" -> dbInfoSubj
    [] c = "upgradable" -> upgradeableSubj

\* the current value of a channel
Value(c) == Subj(c).value

(* --------------------------- BehaviorSubject --------------------------- *)
\* new BehaviorSubject(initial): holds a value, has no observer yet
BehaviorSubject(initial) == [value |-> initial, observers |-> {}]

\* a subject that keeps the first value it is given and ignores the later ones
BehaviorSubject_nextOnce(subj, v) ==
  IF subj.value \in {DefaultPackages, DefaultDbInfo, DefaultUpgradable}
    THEN [subj EXCEPT !.value = v] ELSE subj

\* subject.next(v): v becomes the current value
BehaviorSubject_next(subj, v) == [subj EXCEPT !.value = v]

\* an observer that has not subscribed
NoObserver == [count |-> 0, last |-> NoValue]

\* the observer after it was handed v
Handed(o, v) == [count |-> o.count + 1, last |-> v]

\* a subject that hands on only the values that differ from its current one
DeliverDistinct(subj, v) ==
  IF v = subj.value THEN observer
  ELSE [s \in SubIds |-> IF s \in subj.observers THEN Handed(observer[s], v) ELSE observer[s]]

\* subject.next(v) hands v to every current observer of the subject
Deliver(subj, v) ==
  [s \in SubIds |-> IF s \in subj.observers THEN Handed(observer[s], v) ELSE observer[s]]

\* a plain Subject: a new observer is handed nothing until the next value
Subject_subscribe(subj) == << >>

\* observable.subscribe(): what the new observer is handed at once, the
\* subject's current value
BehaviorSubject_subscribe(subj) == << subj.value >>

(* ------------------------------ requests ------------------------------- *)
\* a rejected request has no response
NoMessage == [text |-> "none"]

\* fetch[l][c] is "idle" (not issued), "pending" (issued, no answer yet),
\* "ok" (fulfilled, code 200), "fail" (fulfilled, another code) or
\* "rejected" (the promise rejected)
SettledStatus == {"ok", "fail", "rejected"}

\* the request's state once its promise fulfilled with `response`
Fulfilled(response) == IF response.code = OK THEN "ok" ELSE "fail"

\* invocation l has a request that is issued and not answered
InFlight(f, l) == \E c \in Channels : f[l][c] = "pending"

\* the three requests of invocation l have all settled
AllSettled(f, l) == \A c \in Channels : f[l][c] \in SettledStatus

\* What invocation l has seen while its requests were in flight: the channels'
\* values when it was called (before), the channels on which a code-200
\* response of another invocation was handled (touched), and whether another
\* invocation had a request in flight meanwhile (overlapped).  It is kept
\* until the next call of load() that finds the invocation with no request
\* in flight.
NoRun == [before |-> [c \in Channels |-> Default(c)], touched |-> {}, overlapped |-> FALSE]

\* the state after the store's construction
Constructed(t) ==
  /\ track = t
  /\ packagesSubj = BehaviorSubject(DefaultPackages)
  /\ dbInfoSubj = BehaviorSubject(DefaultDbInfo)
  /\ upgradeableSubj = BehaviorSubject(DefaultUpgradable)
  /\ observer = [s \in SubIds |-> NoObserver]
  /\ nLoads = 0
  /\ fetch = [l \in Loads |-> [c \in Channels |-> "idle"]]
  /\ issued = [l \in Loads |-> << >>]
  /\ unhandled = {}
  /\ boot = "start"
  /\ initResult = "none"
  /\ run = [l \in Loads |-> NoRun]
  /\ lastOk = [c \in Channels |-> 0]
  /\ lastOkMsg = [c \in Channels |-> Default(c)]

Init == Constructed(FALSE)

\* the same, the history of the invocations being recorded
HistInit == Constructed(TRUE)

(* ------------------------------- load() -------------------------------- *)
\* a load() that hands back the promise of getPackages().then(...)
LoadResultChained == "promise"

\* What load() hands back to its caller.  It is declared `load(): void`:
\* the promise of getPackages().then(...) is dropped, the caller gets
\* undefined as soon as the packages request has been issued.
LoadResult == "void"

\* a load() that launches the three requests at once
LoadBodyConcurrent(l) ==
  /\ nLoads' = l
  /\ fetch' = [fetch EXCEPT ![l] = [c \in Channels |-> "pending"]]
  /\ issued' = [issued EXCEPT ![l] = << "packages", "dbInfo", "upgradable" >>]
  /\ UNCHANGED <<subjects, observer, unhandled, history>>

\* the synchronous body of load(), as invocation l: getPackages() is called
LoadBody(l) ==
  /\ nLoads' = l
  /\ fetch' = [fetch EXCEPT ![l]["packages"] = "pending"]
  /\ issued' = [issued EXCEPT ![l] = << "packages" >>]
  /\ run' = IF ~track THEN run ELSE [k \in Loads |->
       IF k = l THEN [before |-> [c \in Channels |-> Value(c)], touched |-> {},
                      overlapped |-> \E j \in Loads : InFlight(fetch, j)]
       ELSE IF InFlight(fetch, k) THEN [run[k] EXCEPT !.overlapped = TRUE]
       ELSE NoRun]
  /\ UNCHANGED <<subjects, observer, unhandled, track, lastOk, lastOkMsg>>

\* a handler that publishes whatever the response is
publishesAlways(response) == TRUE

\* a handler whose test is inverted
publishesUnlessOk(response) == response.code # OK

\* the tests of the three handlers: if (response.code === 200)
packagesPublishes(response) == response.code = OK
dbInfoPublishes(response) == response.code = OK
upgradablePublishes(response) == response.code = OK

\* nested requests that stand inside the code-200 branch of the handler
nestedIssuedIfOk(response) == response.code = OK

\* The two nested requests stand after the if/else of the packages handler:
\* they are issued whatever the packages response was.
nestedIssued(response) == TRUE

\* a handler whose two nested requests stand in the other order
nestedRequestsSwapped(response) == << "upgradable", "dbInfo" >>

\* a handler that asks for db/info only
nestedRequestsDbInfoOnly(response) == << "dbInfo" >>

\* the requests the packages handler makes, in the order of its statements:
\* get_("db/info") and then get_("db/upgradable")
nestedRequests(response) ==
  IF nestedIssued(response) THEN << "dbInfo", "upgradable" >> ELSE << >>

\* the elements of a sequence
Range(seq) == { seq[i] : i \in 1..Len(seq) }

\* History of a settled request of invocation l on channel c: the last good
\* response of the channel, and what the invocations in flight have seen.
Note(l, c, ok, message) ==
  /\ UNCHANGED track
  /\ lastOk' = IF ok /\ track THEN [lastOk EXCEPT ![c] = l] ELSE lastOk
  /\ lastOkMsg' = IF ok THEN [lastOkMsg EXCEPT ![c] = message] ELSE lastOkMsg
  /\ run' = IF ~track THEN run ELSE [k \in Loads |->
       IF ok /\ k # l /\ InFlight(fetch, k)
         THEN [run[k] EXCEPT !.touched = @ \cup {c}] ELSE run[k]]

\* getPackages().then((response) => {...}) of invocation l
getPackagesThen(l, response) ==
  /\ fetch[l]["packages"] = "pending"
  /\ IF packagesPublishes(response)
       THEN /\ packagesSubj' = BehaviorSubject_next(packagesSubj, response.message)
            /\ observer' = Deliver(packagesSubj, response.message)
       ELSE UNCHANGED <<packagesSubj, observer>>
  /\ fetch' = [fetch EXCEPT ![l] =
       [c \in Channels |->
          IF c = "packages" THEN Fulfilled(response)
          ELSE IF c \in Range(nestedRequests(response)) THEN "pending" ELSE "idle"]]
  /\ issued' = [issued EXCEPT ![l] = @ \o nestedRequests(response)]
  /\ Note(l, "packages", response.code = OK, response.message)
  /\ UNCHANGED <<dbInfoSubj, upgradeableSubj, nLoads, unhandled, boot, initResult>>

\* a db/info handler that publishes into the subject of the upgradable channel
dbInfoThenWrongSubject(l, response) ==
  /\ fetch[l]["dbInfo"] = "pending"
  /\ IF dbInfoPublishes(response)
       THEN /\ upgradeableSubj' = BehaviorSubject_next(upgradeableSubj, response.message)
            /\ observer' = Deliver(upgradeableSubj, response.message)
       ELSE UNCHANGED <<upgradeableSubj, observer>>
  /\ fetch' = [fetch EXCEPT ![l]["dbInfo"] = Fulfilled(response)]
  /\ Note(l, "dbInfo", response.code = OK, response.message)
  /\ UNCHANGED <<packagesSubj, dbInfoSubj, nLoads, issued, unhandled, boot, initResult>>

\* get_("db/info").then((response) => {...}) of invocation l
dbInfoThen(l, response) ==
  /\ fetch[l]["dbInfo"] = "pending"
  /\ IF dbInfoPublishes(response)
       THEN /\ dbInfoSubj' = BehaviorSubject_next(dbInfoSubj, response.message)
            /\ observer' = Deliver(dbInfoSubj, response.message)
       ELSE UNCHANGED <<dbInfoSubj, observer>>
  /\ fetch' = [fetch EXCEPT ![l]["dbInfo"] = Fulfilled(response)]
  /\ Note(l, "dbInfo", response.code = OK, response.message)
  /\ UNCHANGED <<packagesSubj, upgradeableSubj, nLoads, issued, unhandled, boot, initResult>>

\* get_("db/upgradable").then((response) => {...}) of invocation l
upgradableThen(l, response) ==
  /\ fetch[l]["upgradable"] = "pending"
  /\ IF upgradablePublishes(response)
       THEN /\ upgradeableSubj' = BehaviorSubject_next(upgradeableSubj, response.message)
            /\ observer' = Deliver(upgradeableSubj, response.message)
       ELSE UNCHANGED <<upgradeableSubj, observer>>
  /\ fetch' = [fetch EXCEPT ![l]["upgradable"] = Fulfilled(response)]
  /\ Note(l, "upgradable", response.code = OK, response.message)
  /\ UNCHANGED <<packagesSubj, dbInfoSubj, nLoads, issued, unhandled, boot, initResult>>

\* What a then() with a single argument does with a rejection: it has no
\* handler for it, the callback is skipped and the rejection is passed on.
\* No catch() follows in load(), so nothing takes it.
rejectionHandled == FALSE

\* the promise of request c of invocation l rejects (transport failure)
fetchRejects(l, c) ==
  /\ fetch[l][c] = "pending"
  /\ fetch' = [fetch EXCEPT ![l][c] = "rejected"]
  /\ unhandled' = IF rejectionHandled THEN unhandled ELSE unhandled \cup {<<l, c>>}
  /\ Note(l, c, FALSE, NoMessage)
  /\ UNCHANGED <<subjects, observer, nLoads, issued, boot, initResult>>

\* a component calls store.load() once the application runs
load ==
  /\ boot = "done"
  /\ nLoads < MaxLoads
  /\ LoadBody(nLoads + 1)
  /\ UNCHANGED <<boot, initResult>>

(* ------------------------- start-up (AppModule) ------------------------ *)
\* init_shared_store(store)(): the APP_INITIALIZER hook runs the store's
\* refresh and returns what it returns
init_shared_store ==
  /\ boot = "start"
  /\ LoadBody(1)
  /\ boot' = "initializing"
  /\ initResult' = LoadResult

\* the operation returned by invocation l has completed: a void result is
\* complete on return; a promise of the then() chain fulfils when the
\* packages handler has run
LoadFinished(l) ==
  /\ l <= nLoads
  /\ \/ LoadResult = "void"
     \/ LoadResult = "promise" /\ fetch[l]["packages"] \in {"ok", "fail"}

\* The runtime waits for the initializers that returned a promise, and for
\* no other: bootstrap completes and the root component mounts.
BootstrapComplete ==
  /\ boot = "initializing"
  /\ \/ initResult = "void"
     \/ initResult = "promise" /\ fetch[1]["packages"] \in {"ok", "fail"}
  /\ boot' = "done"
  /\ UNCHANGED <<subjects, observer, nLoads, fetch, issued, unhandled, initResult, history>>

(* ------------------------------ observers ------------------------------ *)
Subscribed(s) == \E c \in Channels : s \in Subj(c).observers

\* a component subscribes observer s to channel c (observers come in the
\* order of their numbers)
subscribe(s, c) ==
  /\ ~Subscribed(s)
  /\ \A t \in SubIds : t < s => Subscribed(t)
  /\ observer' = [observer EXCEPT ![s] =
       [count |-> Len(BehaviorSubject_subscribe(Subj(c))),
        last |-> IF BehaviorSubject_subscribe(Subj(c)) = << >> THEN NoValue
                 ELSE BehaviorSubject_subscribe(Subj(c))[Len(BehaviorSubject_subscribe(Subj(c)))]]]
  /\ packagesSubj' = IF c = "packages"
       THEN [packagesSubj EXCEPT !.observers = @ \cup {s}] ELSE packagesSubj
  /\ dbInfoSubj' = IF c = "dbInfo"
       THEN [dbInfoSubj EXCEPT !.observers = @ \cup {s}] ELSE dbInfoSubj
  /\ upgradeableSubj' = IF c = "upgradable"
       THEN [upgradeableSubj EXCEPT !.observers = @ \cup {s}] ELSE upgradeableSubj
  /\ UNCHANGED <<nLoads, fetch, issued, unhandled, boot, initResult, history>>

(* ---------------------------- specification ---------------------------- *)
StoreNext ==
  \/ init_shared_store
  \/ BootstrapComplete
  \/ load
  \/ \E l \in Loads : \E response \in Responses("packages") : getPackagesThen(l, response)
  \/ \E l \in Loads : \E response \in Responses("dbInfo") : dbInfoThen(l, response)
  \/ \E l \in Loads : \E response \in Responses("upgradable") : upgradableThen(l, response)
  \/ \E l \in Loads : \E c \in Channels : fetchRejects(l, c)

\* the store and the start-up, no component observing
Spec == Init /\ [][StoreNext]_vars

ObsNext ==
  \/ StoreNext
  \/ \E s \in SubIds : \E c \in Channels : subscribe(s, c)

\* the store, the start-up and the observers of the channels
ObsSpec == Init /\ [][ObsNext]_vars

\* the store and the start-up, with the history of the invocations
HistSpec == HistInit /\ [][StoreNext]_vars

\* every issued request is answered in the end, and the start-up runs on
Fairness ==
  /\ WF_vars(init_shared_store)
  /\ WF_vars(BootstrapComplete)
  /\ \A l \in Loads : \A c \in Channels :
       WF_vars(\/ c = "packages" /\ \E r \in Responses(c) : getPackagesThen(l, r)
               \/ c = "dbInfo" /\ \E r \in Responses(c) : dbInfoThen(l, r)
               \/ c = "upgradable" /\ \E r \in Responses(c) : upgradableThen(l, r)
               \/ fetchRejects(l, c))

\* The start-up: the run of the application until a component calls load().
\* load() is enabled only once bootstrap is complete, so up to that point the
\* behaviours of StoreNext are those of StartNext.
StartNext ==
  \/ init_shared_store
  \/ BootstrapComplete
  \/ \E l \in Loads : \E response \in Responses("packages") : getPackagesThen(l, response)
  \/ \E l \in Loads : \E response \in Responses("dbInfo") : dbInfoThen(l, response)
  \/ \E l \in Loads : \E response \in Responses("upgradable") : upgradableThen(l, response)
  \/ \E l \in Loads : \E c \in Channels : fetchRejects(l, c)

FairSpec == Init /\ [][StartNext]_vars /\ Fairness

TypeOK ==
  /\ \A c \in Channels : Subj(c).observers \subseteq SubIds
  /\ nLoads \in 0..MaxLoads
  /\ boot \in {"start", "initializing", "done"}
  /\ \A l \in Loads : \A c \in Channels :
       fetch[l][c] \in {"idle", "pending"} \cup SettledStatus

(* ------------------------------ properties ----------------------------- *)
\* invocation l's last request settles in this step
Completes(l) == InFlight(fetch, l) /\ AllSettled(fetch', l)

\* the three requests of invocation l were answered with code 200
AllOk(l) == \A c \in Channels : fetch[l][c] = "ok"

\* the three requests of invocation l failed, or were not even issued
Outage(l) ==
  /\ fetch[l]["packages"] \in {"fail", "rejected"}
  /\ \A c \in Channels : fetch[l][c] \notin {"ok", "pending"}

\* C1: the operation load() returns completes only after the three requests
\* of the invocation have settled: no invocation is finished while one of its
\* requests is not issued or in flight.
C1_FinishedOnlyWhenAllSettled ==
  \A l \in Loads : LoadFinished(l) => AllSettled(fetch, l)

\* C2: a failed request (another code than 200, or a rejection) of an
\* invocation never prevents the other two: they are issued, and a code-200
\* response of theirs is published.
C2_FailureLeavesOthersIssued ==
  \A l \in Loads : \A c \in Channels :
    fetch[l][c] \in {"fail", "rejected"} =>
      \A d \in Channels \ {c} :
        /\ fetch[l][d] # "idle"
        /\ fetch[l][d] = "ok" => Value(d) = lastOkMsg[d]

\* C3: bootstrap is not complete while a request of the first invocation, the
\* start-up hook's, is not issued or not settled.
C3_BootstrapWaitsForFirstLoad ==
  boot = "done" => AllSettled(fetch, 1)

\* C4: whatever the three requests do, no error and no unhandled rejection
\* leaves the store.
C4_NoRejectionEscapes ==
  unhandled = {}

\* C5, as claimed: when an invocation completes, the channel of each of its
\* requests that failed with another code than 200 holds the value it had
\* when the invocation was called.
C5_FailedChannelAsBeforeCall ==
  [][\A l \in Loads : \A c \in Channels :
       Completes(l) /\ fetch'[l][c] = "fail" => Value(c)' = run[l].before[c]]_vars

\* C5, amended: the same, unless a code-200 response of another invocation was
\* handled on that channel between the call and the completion; and the
\* handler of a failed response writes no channel.
C5_FailedChannelUnchanged ==
  [][\A l \in Loads : \A c \in Channels :
       /\ (Completes(l) /\ fetch'[l][c] = "fail" /\ c \notin run'[l].touched)
            => Value(c)' = run[l].before[c]
       /\ (fetch[l][c] = "pending" /\ fetch'[l][c] = "fail")
            => \A d \in Channels : Value(d)' = Value(d)]_vars

\* a second invocation has completed, its packages request failed and the
\* channel still holds the earlier payload, while its dbInfo request succeeded
C5_Witness ==
  /\ AllSettled(fetch, 2)
  /\ fetch[2]["packages"] = "fail"
  /\ fetch[2]["dbInfo"] = "ok"
  /\ "packages" \notin run[2].touched
  /\ run[2].before["packages"] = Payload("packages", 1)
  /\ Value("packages") = Payload("packages", 1)

\* C6: when the three requests of an invocation that no other invocation
\* overlaps are answered with code 200 and payloads P, D, U, then once they
\* have settled the channels hold P, D and U: the last good response of each
\* channel is this invocation's, and the channel holds its message.
C6_AllThreePublished ==
  \A l \in Loads :
    (AllOk(l) /\ ~run[l].overlapped /\ l = nLoads) =>
      \A c \in Channels : lastOk[c] = l /\ Value(c) = lastOkMsg[c]

\* a second, non-overlapped invocation replaced the three values
C6_Witness ==
  /\ nLoads = 2 /\ AllOk(2) /\ ~run[2].overlapped
  /\ \A c \in Channels : run[2].before[c] = Payload(c, 0) /\ Value(c) = Payload(c, 1)

\* C7: if every issued request settles in the end, bootstrap completes, and
\* after a total outage of the start-up's invocation it is complete with the
\* three channels at their defaults.
C7_BootstrapProceeds ==
  /\ <>(boot = "done")
  /\ []((boot = "done" /\ nLoads = 1 /\ Outage(1)) =>
          \A c \in Channels : Value(c) = Default(c))

\* bootstrap is complete after the three requests of the start-up failed
C7_Witness ==
  /\ boot = "done" /\ nLoads = 1
  /\ \A c \in Channels : fetch[1][c] \in {"fail", "rejected"}
  /\ \A c \in Channels : Value(c) = Default(c)

\* C8: whatever the invocations and their overlap, each channel holds the
\* message of the code-200 response of its endpoint that was handled last
\* (its default when there was none), whichever invocation that response
\* belongs to.
C8_LastWriteWins ==
  \A c \in Channels :
    /\ Value(c) = lastOkMsg[c]
    /\ lastOk[c] = 0 => Value(c) = Default(c)
    /\ lastOk[c] # 0 => fetch[lastOk[c]][c] = "ok"

\* both invocations have settled; the packages response of the first one,
\* called first, was handled after the second one's and its payload stays
C8_Witness ==
  /\ \A l \in Loads : l <= 2 => AllSettled(fetch, l)
  /\ fetch[1]["packages"] = "ok" /\ fetch[2]["packages"] = "ok"
  /\ "packages" \in run[2].touched
  /\ lastOk["packages"] = 1
  /\ Value("packages") = Payload("packages", 1)

\* C9: an observer that subscribes to a channel is handed at once, as its
\* first value, the channel's current value, which is the message of the last
\* code-200 response handled (the default when there was none).
C9_ReplayOfLatest ==
  [][\A s \in SubIds : \A c \in Channels :
       (s \notin Subj(c).observers /\ s \in Subj(c).observers') =>
         /\ observer'[s].count = 1
         /\ observer'[s].last = Value(c)
         /\ observer'[s].last = lastOkMsg[c]]_vars

\* an observer subscribed after a payload was published and was handed it
C9_Witness ==
  \E s \in SubIds :
    /\ s \in dbInfoSubj.observers
    /\ observer[s].count = 1
    /\ observer[s].last = Payload("dbInfo", 1)

\* C10: a channel none of whose requests was answered with code 200 holds its
\* default, from the construction on and through failed invocations.
C10_DefaultUntilFirstOk ==
  \A c \in Channels :
    (\A l \in Loads : fetch[l][c] # "ok") => Value(c) = Default(c)

\* two invocations failed on packages, which is still empty, while dbInfo
\* was published
C10_Witness ==
  /\ fetch[1]["packages"] = "fail" /\ fetch[2]["packages"] = "fail"
  /\ Value("packages") = DefaultPackages
  /\ Value("dbInfo") = Payload("dbInfo", 1)

\* the order in which the statements of load() ask the three endpoints
IssueOrder == << "packages", "dbInfo", "upgradable" >>

\* C11: the requests an invocation has issued are, in the order of the calls,
\* the first ones of packages, db/info, db/upgradable: db/info is never asked
\* before packages, db/upgradable never before db/info, none of them twice;
\* and a request is issued exactly when it is in that list.
C11_FixedIssueOrder ==
  \A l \in Loads :
    /\ \E n \in 0..Len(IssueOrder) : issued[l] = SubSeq(IssueOrder, 1, n)
    /\ \A c \in Channels : fetch[l][c] # "idle" <=> c \in Range(issued[l])

\* a second invocation has issued its three requests, the last of which has
\* been answered while the first invocation has issued packages only
C11_Witness ==
  /\ issued[1] = << "packages" >>
  /\ issued[2] = IssueOrder
  /\ fetch[2]["upgradable"] = "ok"

\* the packages request of invocation l is answered (with a response) in this step
PackagesAnswered(l) ==
  fetch[l]["packages"] = "pending" /\ fetch'[l]["packages"] \in {"ok", "fail"}

\* request c of invocation l is answered with code 200 in this step
AnsweredOk(l, c) == fetch[l][c] = "pending" /\ fetch'[l][c] = "ok"

\* request c of invocation l settles in this step
Settles(l, c) == fetch[l][c] = "pending" /\ fetch'[l][c] \in SettledStatus

\* request c of invocation l settles: its response is handled, or it rejects
Settle(l, c) ==
  \/ c = "packages" /\ \E r \in Responses(c) : getPackagesThen(l, r)
  \/ c = "dbInfo" /\ \E r \in Responses(c) : dbInfoThen(l, r)
  \/ c = "upgradable" /\ \E r \in Responses(c) : upgradableThen(l, r)
  \/ fetchRejects(l, c)

\* the requests nested in the packages handler
Nested == {"dbInfo", "upgradable"}

\* C12, as claimed: the three requests of an invocation settle in any order:
\* from the call of load() on, each request of the invocation that has not
\* settled can be the next to settle, db/info and db/upgradable also while
\* packages is not settled.
C12_AnyCompletionOrder ==
  \A l \in Loads : l <= nLoads =>
    \A c \in Channels : fetch[l][c] \notin SettledStatus => ENABLED Settle(l, c)

\* C12, amended: db/info and db/upgradable settle only after packages was
\* answered, and from then on in either order: each of the two that has not
\* settled can be the next to settle; a code-200 response is published in the
\* step that handles it.
C12_NestedCompleteInAnyOrder ==
  /\ [](\A l \in Loads : \A c \in Nested :
          /\ fetch[l][c] # "idle" => fetch[l]["packages"] \in {"ok", "fail"}
          /\ (fetch[l]["packages"] \in {"ok", "fail"} /\ fetch[l][c] \notin SettledStatus)
               => ENABLED Settle(l, c))
  /\ [][\A l \in Loads : \A c \in Channels :
          AnsweredOk(l, c) => Value(c)' = lastOkMsg'[c]]_vars

\* db/upgradable, asked last, was answered and published while db/info of
\* the same invocation is in flight
C12_Witness ==
  /\ fetch[1]["packages"] = "ok"
  /\ fetch[1]["dbInfo"] = "pending"
  /\ fetch[1]["upgradable"] = "ok"
  /\ Value("upgradable") = Payload("upgradable", 1)
  /\ Value("dbInfo") = DefaultDbInfo

\* C13: the step that handles the packages response of an invocation, whatever
\* its code, issues the db/info and the db/upgradable request of the
\* invocation; the settling of one of these two leaves the other request as it
\* is, and a code-200 response of either is published whatever the state of
\* the other.
C13_NestedNotGated ==
  [][\A l \in Loads :
       /\ PackagesAnswered(l) =>
            fetch'[l]["dbInfo"] = "pending" /\ fetch'[l]["upgradable"] = "pending"
       /\ \A c \in {"dbInfo", "upgradable"} : \A d \in {"dbInfo", "upgradable"} \ {c} :
            /\ Settles(l, c) => fetch'[l][d] = fetch[l][d]
            /\ AnsweredOk(l, c) => Value(c)' = lastOkMsg'[c]]_vars

\* packages and db/info of an invocation failed, its db/upgradable response
\* was published all the same
C13_Witness ==
  /\ fetch[1]["packages"] = "fail"
  /\ fetch[1]["dbInfo"] = "fail"
  /\ fetch[1]["upgradable"] = "ok"
  /\ Value("upgradable") = Payload("upgradable", 1)

\* C14: each channel holds its default or the payload of a code-200 response
\* of its own endpoint, the one handled last: never the message of a failed
\* response, never a payload of another endpoint, never undefined.
C14_LastKnownGood ==
  \A c \in Channels :
    /\ Value(c) \in Payloads(c)
    /\ Value(c) = lastOkMsg[c]
    /\ Value(c) \notin {FailureMessage, NoValue, NoMessage}
    /\ \A d \in Channels \ {c} : Value(c) \notin Payloads(d) \ {Default(c)}

\* db/upgradable failed in the second invocation, while the first overlapped
\* it or not: the channel still holds the first one's payload
C14_Witness ==
  /\ fetch[1]["upgradable"] = "ok"
  /\ fetch[2]["upgradable"] = "fail"
  /\ Value("upgradable") = Payload("upgradable", 1)
  /\ Value("packages") = DefaultPackages

\* C15: the settling of a request leaves the two channels of the other
\* endpoints as they are, and a channel changes only in the step that handles
\* a code-200 response of its own endpoint: no call of load(), no failed or
\* rejected request, no step of the start-up and no subscription changes one.
C15_ChannelFrame ==
  [][/\ \A l \in Loads : \A c \in Channels :
          Settles(l, c) => \A d \in Channels \ {c} : Value(d)' = Value(d)
     /\ \A c \in Channels :
          Value(c)' # Value(c) => \E l \in Loads : AnsweredOk(l, c)]_vars

\* the three channels were published one by one, an observer looking on, and
\* a later invocation whose packages request failed changed none
C15_Witness ==
  /\ \A c \in Channels : fetch[1][c] = "ok" /\ Value(c) = Payload(c, 1)
  /\ fetch[2]["packages"] = "fail"
  /\ \E s \in SubIds : Subscribed(s)

\* C16: an observer is handed one value when it subscribes, the channel's
\* current one; from then on it is handed exactly the message of each code-200
\* response of its channel's endpoint, in the step that handles the response
\* (also when the message equals the current value), and nothing in any other
\* step: not for a failed or rejected request, not for another channel.
C16_EmissionPerUpdate ==
  [][\A s \in SubIds : \A c \in Channels :
       /\ (s \notin Subj(c).observers /\ s \in Subj(c).observers') =>
            observer'[s] = [count |-> 1, last |-> Value(c)]
       /\ (s \in Subj(c).observers /\ \E l \in Loads : AnsweredOk(l, c)) =>
            observer'[s] = [count |-> observer[s].count + 1, last |-> lastOkMsg'[c]]
       /\ (s \in Subj(c).observers /\ ~\E l \in Loads : AnsweredOk(l, c)) =>
            observer'[s] = observer[s]]_vars

\* an observer of packages subscribed at the default and was handed the
\* payload of the one code-200 response, equal to the default; the dbInfo
\* update and the failed db/upgradable request handed it nothing
C16_Witness ==
  /\ nLoads = 1
  /\ fetch[1]["packages"] = "ok" /\ fetch[1]["dbInfo"] = "ok" /\ fetch[1]["upgradable"] = "fail"
  /\ Value("dbInfo") = Payload("dbInfo", 1)
  /\ \E s \in SubIds :
       /\ s \in packagesSubj.observers
       /\ observer[s] = [count |-> 2, last |-> DefaultPackages]

\* C17: while the packages request of an invocation has no response (not
\* answered yet, or rejected) its db/info and db/upgradable requests are not
\* issued, and dbInfo and upgradable change only in the step that handles a
\* code-200 response of an invocation whose packages request was answered.
C17_NoNestedWithoutPackages ==
  /\ [](\A l \in Loads : fetch[l]["packages"] \notin {"ok", "fail"} =>
          fetch[l]["dbInfo"] = "idle" /\ fetch[l]["upgradable"] = "idle")
  /\ [][\A c \in {"dbInfo", "upgradable"} :
          Value(c)' # Value(c) =>
            \E l \in Loads : fetch[l]["packages"] \in {"ok", "fail"} /\ AnsweredOk(l, c)]_vars

\* the packages request of the second invocation rejected: nothing else of
\* it was issued and the two channels hold what the first invocation published
C17_Witness ==
  /\ fetch[2]["packages"] = "rejected"
  /\ issued[2] = << "packages" >>
  /\ fetch[1]["dbInfo"] = "ok" /\ fetch[1]["upgradable"] = "ok"
  /\ Value("dbInfo") = Payload("dbInfo", 1)
  /\ Value("upgradable") = Payload("upgradable", 1)

====
